---- MODULE Spec2Model ----
(***************************************************************************)
(* Model of rest-hours (src/index.js): a page that loads a static list of  *)
(* restaurants, parses their weekly hour strings into per-weekday          *)
(* open/close instants, and on each form submit lists the restaurants open *)
(* at the entered weekday and time.                                        *)
(*                                                                         *)
(* Representation of text.                                                 *)
(*  - A clock text "h:mm am|pm" / "h am|pm" is a record [h, m, ap].        *)
(*  - An hour string is a record [days, time]: `days` is the sequence of   *)
(*    day clauses, <<A, B>> for the range "A-B" and <<D>> for the lone day *)
(*    "D", written joined by ", "; `time` is <<>> when the string has no   *)
(*    time range and <<open, close>> (two clock texts, written             *)
(*    "open - close" after a space) when it has one.                       *)
(*  - A Moment is an instant in minutes: date * MinutesPerDay + minute of  *)
(*    day, the date being a day number (day 0 is a Thursday).              *)
(*  - The value of the time field is <<hh, mm>> ("HH:mm"); the value of    *)
(*    the date field is a day number, InvalidDate standing for text that   *)
(*    is no date.                                                          *)
(***************************************************************************)
EXTENDS Integers, Sequences, FiniteSets, TLC

VARIABLES
    source,        \* what fetch('rest_hours.json') will deliver
    pc,            \* position of the main async function
    restaurants,   \* the array returned by getRestaurants
    today,         \* the wall-clock date
    dateInput,     \* value of the #date field
    timeInput,     \* value of the #time field
    dateError,     \* #date carries the 'error' class
    timeError,     \* #time carries the 'error' class
    list,          \* the <li> texts of the results list
    mainBody,      \* "page", or "error" once the message replaced <main>
    listening,     \* the submit listener is registered
    query,         \* <<day, time>> of the last filter run by handleSubmit
    matches        \* the last array handleSubmit passed to display

vars == <<source, pc, restaurants, today, dateInput, timeInput, dateError,
          timeError, list, mainBody, listening, query, matches>>

----------------------------------------------------------------------------
(* Bounds *)

MaxDay == 1

MaxRestaurants == 2

MaxDate == 3

(* Program and calendar constants *)

MinutesPerDay == 24 * 60

InvalidDate == MaxDate + 1

Undefined == "undefined"

True == "true"

NoResults == " No results."

----------------------------------------------------------------------------
(* moment *)

weekdaysShort == <<"Sun", "Mon", "Tue", "Wed", "Thu", "Fri", "Sat">>

\* Clock text parsed with the formats 'h:mm a' / 'h: a': minute of the day.
ParseClock(text) ==
    ((text.h % 12) + (IF text.ap = "pm" THEN 12 ELSE 0)) * 60 + text.m

\* moment(text, formats), evaluated on wall-clock date `now`.
momentClock(text, now) == now * MinutesPerDay + ParseClock(text)

\* moment(timeInput.value, ['HH:mm', 'h:mm a']).isValid()
\* (moment takes 24:00 for a time, the end of the day).
timeIsValid(value) ==
    \/ value[1] \in 0..23 /\ value[2] \in 0..59
    \/ value[1] = 24 /\ value[2] = 0

\* moment(timeInput.value, ['HH:mm', 'h:mm a']), evaluated on date `now`.
momentTime(value, now) == now * MinutesPerDay + value[1] * 60 + value[2]

\* moment(dateInput.value, 'YYYY-MM-DD').isValid()
dateIsValid(value) == value # InvalidDate

addDay(m) == m + MinutesPerDay

isSameOrBefore(a, b) == a <= b

isBetween(t, from, to) == from < t /\ t < to

----------------------------------------------------------------------------
(* Array helpers, 0-based as in the source *)

indexOf(arr, x) ==
    IF \E i \in 1..Len(arr) : arr[i] = x
    THEN (CHOOSE i \in 1..Len(arr) :
            arr[i] = x /\ \A j \in 1..(i - 1) : arr[j] # x) - 1
    ELSE -1

\* arr.slice(from, to) for from >= 0
slice(arr, from, to) ==
    LET hi == IF to > Len(arr) THEN Len(arr) ELSE to
    IN  IF from >= hi THEN <<>> ELSE [i \in 1..(hi - from) |-> arr[from + i]]

\* Day number 0 is a Thursday (as 1970-01-01 is).
EpochWeekday == "Thu"

\* date.format('ddd')
formatDdd(date) ==
    weekdaysShort[((date + indexOf(weekdaysShort, EpochWeekday)) % 7) + 1]

----------------------------------------------------------------------------
(* The regular expressions of getRestaurants *)

\* matcher.dayRange.exec(time): the first "A-B" clause, <<>> for null.
execDayRange(time) ==
    IF \E i \in 1..Len(time.days) : Len(time.days[i]) = 2
    THEN time.days[CHOOSE i \in 1..Len(time.days) :
                     /\ Len(time.days[i]) = 2
                     /\ \A j \in 1..(i - 1) : Len(time.days[j]) # 2]
    ELSE <<>>

\* matcher.loneDay.exec(time): a capitalised word that stands between the
\* start or a space and a space.  Only the last clause is followed by a space
\* (the others by a comma), and only when a time range follows it.
execLoneDay(time) ==
    IF /\ Len(time.days) > 0
       /\ Len(time.days[Len(time.days)]) = 1
       /\ time.time # <<>>
    THEN time.days[Len(time.days)]
    ELSE <<>>

\* matcher.timeRange.exec(time), <<>> for null.
execTimeRange(time) == time.time

----------------------------------------------------------------------------
(* makeSchedule *)

EmptySchedule == [d \in {} |-> 0]

Range(seq) == {seq[i] : i \in 1..Len(seq)}

\* The object built at lines 134-141.  moment(open, formats) and
\* moment(close, formats) are two calls, each anchored on the wall-clock date
\* at the time it runs (nowOpen, nowClose); close is moved one day on when it
\* is not after open.
dayTimesOf(timeRange, nowOpen, nowClose) ==
    LET open  == momentClock(timeRange[1], nowOpen)
        close == momentClock(timeRange[2], nowClose)
    IN  [open  |-> open,
         close |-> IF isSameOrBefore(close, open) THEN addDay(close) ELSE close]

\* Variant: the wrapped range stops before the end day (slice(0, indexOfEnd)).
daysInRange_EndExcluded(dayRange, weekdays) ==
    LET indexOfStart == indexOf(weekdays, dayRange[1])
        indexOfEnd   == indexOf(weekdays, dayRange[2])
    IN  IF indexOfStart > indexOfEnd
        THEN slice(weekdays, indexOfStart, Len(weekdays))
                \o slice(weekdays, 0, indexOfEnd)
        ELSE slice(weekdays, indexOfStart, indexOfEnd + 1)

\* Lines 144-154: the weekdays a range "start-end" stands for.
daysInRange(dayRange, weekdays) ==
    LET indexOfStart == indexOf(weekdays, dayRange[1])
        indexOfEnd   == indexOf(weekdays, dayRange[2])
    IN  IF indexOfStart > indexOfEnd
        THEN slice(weekdays, indexOfStart, Len(weekdays))
                \o slice(weekdays, 0, indexOfEnd + 1)
        ELSE slice(weekdays, indexOfStart, indexOfEnd + 1)

\* schedule[day] = dayTimes for every day of `days`.
assign(schedule, days, dayTimes) ==
    [d \in DOMAIN schedule \cup days |->
        IF d \in days THEN dayTimes ELSE schedule[d]]

\* One turn of times.forEach (lines 128-164) on a string with a time range.
parseOne(schedule, time, weekdays, nowOpen, nowClose) ==
    LET dayRange  == execDayRange(time)
        loneDay   == execLoneDay(time)
        dayTimes  == dayTimesOf(execTimeRange(time), nowOpen, nowClose)
        afterRange == IF dayRange # <<>>
                      THEN assign(schedule,
                                  Range(daysInRange(dayRange, weekdays)),
                                  dayTimes)
                      ELSE schedule
    IN  IF loneDay # <<>>
        THEN assign(afterRange, {loneDay[1]}, dayTimes)
        ELSE afterRange

\* timeRange[0] of a null match throws a TypeError (line 132).
throwsOn(time) == execTimeRange(time) = <<>>

\* `clock` is the sequence of wall-clock dates the calls of moment read, in
\* the order of the calls; `reads` counts the calls made so far.  The string
\* at index i reads the clock twice, for its open and for its close.
RECURSIVE makeScheduleFrom(_, _, _, _, _, _)
makeScheduleFrom(times, i, schedule, weekdays, clock, reads) ==
    IF i > Len(times) THEN [threw |-> FALSE, schedule |-> schedule]
    ELSE IF throwsOn(times[i]) THEN [threw |-> TRUE, schedule |-> EmptySchedule]
    ELSE makeScheduleFrom(times, i + 1,
                          parseOne(schedule, times[i], weekdays,
                                   clock[reads + 1], clock[reads + 2]),
                          weekdays, clock, reads + 2)

\* makeSchedule(times, weekdays, matcher, formats): [threw, schedule].
makeSchedule(times, weekdays, clock, reads) ==
    makeScheduleFrom(times, 1, EmptySchedule, weekdays, clock, reads)

\* The number of calls of moment makeSchedule makes for a record.
ReadsOf(record) ==
    IF "times" \in DOMAIN record THEN 2 * Len(record.times) ELSE 0

\* The number of calls of moment made for the records before index i.
RECURSIVE ReadsBefore(_, _)
ReadsBefore(records, i) ==
    IF i <= 1 THEN 0
    ELSE ReadsBefore(records, i - 1) + ReadsOf(records[i - 1])

----------------------------------------------------------------------------
(* getRestaurants *)

\* What the fetch delivers: [readable, json].  `readable` is FALSE when fetch
\* or res.json() rejects; otherwise json is the array of records.
Unreadable == [readable |-> FALSE, json |-> <<>>]

Readable(records) == [readable |-> TRUE, json |-> records]

\* A record is a JSON object: a function whose domain holds the fields it has.
hasField(record, f) == f \in DOMAIN record

\* The mapping of one record (lines 189-192): restaurant.times.forEach throws
\* when `times` is missing; a missing `name` reads as undefined.
mapRecord(record, clock, reads) ==
    IF ~hasField(record, "times")
    THEN [threw |-> TRUE, name |-> Undefined, schedule |-> EmptySchedule]
    ELSE LET made == makeSchedule(record.times, weekdaysShort, clock, reads)
         IN  [threw    |-> made.threw,
              name     |-> IF hasField(record, "name")
                           THEN record.name ELSE Undefined,
              schedule |-> made.schedule]

\* Variant: a record that throws is skipped over instead of rejecting the load.
getRestaurantsThrows_FetchOnly(src, clock) == ~src.readable

\* getRestaurants rejects: fetch or res.json() rejected, or a record threw.
getRestaurantsThrows(src, clock) ==
    IF ~src.readable THEN TRUE
    ELSE \E i \in 1..Len(src.json) :
            mapRecord(src.json[i], clock, ReadsBefore(src.json, i)).threw

\* The array getRestaurants resolves to.
getRestaurants(src, clock) ==
    [i \in 1..Len(src.json) |->
        [name     |-> mapRecord(src.json[i], clock, ReadsBefore(src.json, i)).name,
         schedule |-> mapRecord(src.json[i], clock,
                                ReadsBefore(src.json, i)).schedule]]

\* The calls of moment from the start of getRestaurants to the end of
\* setupDefault: two for every hour string, moment() at line 276 and the
\* moment(timeInput.value, ...) of handleSubmit at line 244.
LoadReads(src) == ReadsBefore(src.json, Len(src.json) + 1) + 2

\* The clocks n calls can read from date `from` on: midnight j passes after
\* cuts[j] of the calls.
Clocks(from, n) ==
    {[k \in 1..n |-> from + Cardinality({j \in DOMAIN cuts : cuts[j] < k})] :
        cuts \in [1..(MaxDay - from) -> 0..n]}

\* The clock that stands still.
Still(from, n) == [k \in 1..n |-> from]

----------------------------------------------------------------------------
(* isOpen, display, checkInput, handleSubmit *)

\* Variant: the bounds are inclusive (isBetween(open, close, null, '[]')).
isOpen_Inclusive(restaurant, day, time) ==
    IF /\ day \in DOMAIN restaurant.schedule
       /\ restaurant.schedule[day].open <= time
       /\ time <= restaurant.schedule[day].close
    THEN True
    ELSE Undefined

\* isOpen returns true, or nothing (undefined) when the weekday has no entry
\* or the time is not between open and close.
isOpen(restaurant, day, time) ==
    IF /\ day \in DOMAIN restaurant.schedule
       /\ isBetween(time, restaurant.schedule[day].open,
                          restaurant.schedule[day].close)
    THEN True
    ELSE Undefined

\* Array.prototype.filter keeps the elements whose callback result is truthy.
truthy(v) == v = True

\* Variant: the matches are collected last first.
filterOpen_Reversed(rs, day, time) ==
    LET kept == SelectSeq(rs, LAMBDA rest :
                    /\ day \in DOMAIN rest.schedule
                    /\ isBetween(time, rest.schedule[day].open,
                                       rest.schedule[day].close))
    IN  [j \in 1..Len(kept) |-> kept[Len(kept) + 1 - j]]

filterOpen(rs, day, time) ==
    SelectSeq(rs, LAMBDA rest : truthy(isOpen(rest, day, time)))

\* display(output) for an array: the <li> texts written into the list.
displayList(output) ==
    IF Len(output) > 0
    THEN [i \in 1..Len(output) |-> output[i].name]
    ELSE <<NoResults>>

\* Variant: when only the date is invalid the time field keeps its mark
\* (hideInvalid(timeInput) left out of the second branch).
checkInput_StaleTimeMark(dateValue, timeValue) ==
    LET invalidDate == ~dateIsValid(dateValue)
        invalidTime == ~timeIsValid(timeValue)
    IN  IF invalidDate /\ invalidTime
        THEN [dateError |-> TRUE, timeError |-> TRUE, ok |-> FALSE]
        ELSE IF invalidDate
        THEN [dateError |-> TRUE, timeError |-> timeError, ok |-> FALSE]
        ELSE IF invalidTime
        THEN [dateError |-> FALSE, timeError |-> TRUE, ok |-> FALSE]
        ELSE [dateError |-> FALSE, timeError |-> FALSE, ok |-> TRUE]

\* checkInput(date, time): the marks it leaves on the fields (displayInvalid
\* sets the 'error' class, hideInvalid removes it) and its result.
checkInput(dateValue, timeValue) ==
    LET invalidDate == ~dateIsValid(dateValue)
        invalidTime == ~timeIsValid(timeValue)
    IN  IF invalidDate /\ invalidTime
        THEN [dateError |-> TRUE, timeError |-> TRUE, ok |-> FALSE]
        ELSE IF invalidDate
        THEN [dateError |-> TRUE, timeError |-> FALSE, ok |-> FALSE]
        ELSE IF invalidTime
        THEN [dateError |-> FALSE, timeError |-> TRUE, ok |-> FALSE]
        ELSE [dateError |-> FALSE, timeError |-> FALSE, ok |-> TRUE]

\* handleSubmit(restaurants, event) reading the field values dateValue and
\* timeValue on wall-clock date `now`.
handleSubmit(rs, dateValue, timeValue, now) ==
    LET checked == checkInput(dateValue, timeValue)
        day     == formatDdd(dateValue)
        time    == momentTime(timeValue, now)
    IN  /\ dateError' = checked.dateError
        /\ timeError' = checked.timeError
        /\ IF ~checked.ok
           THEN UNCHANGED <<list, query, matches>>
           ELSE /\ matches' = filterOpen(rs, day, time)
                /\ list' = displayList(filterOpen(rs, day, time))
                /\ query' = <<day, time>>

----------------------------------------------------------------------------
(* Inputs *)

am(h, m) == [h |-> h, m |-> m, ap |-> "am"]

pm(h, m) == [h |-> h, m |-> m, ap |-> "pm"]

ClockTexts == {am(12, 0), am(2, 0), am(11, 30), pm(12, 30), pm(10, 0)}

WeekdayNames == Range(weekdaysShort)

\* "A-B 11:30 am - 10 pm" and "A-B 10 pm - 2 am" for every pair of weekdays
RangeStrings ==
    {[days |-> <<<<a, b>>>>, time |-> tr] :
        a \in WeekdayNames, b \in WeekdayNames,
        tr \in {<<am(11, 30), pm(10, 0)>>, <<pm(10, 0), am(2, 0)>>}}

\* "Fri <open> - <close>" for every pair of clock texts
LoneStrings ==
    {[days |-> <<<<"Fri">>>>, time |-> <<o, c>>] :
        o \in ClockTexts, c \in ClockTexts}

MonFri == [days |-> <<<<"Mon", "Fri">>>>, time |-> <<am(11, 30), pm(10, 0)>>]

FriNight == [days |-> <<<<"Fri">>>>, time |-> <<pm(10, 0), am(2, 0)>>]

SunNight == [days |-> <<<<"Sun">>>>, time |-> <<pm(10, 0), am(2, 0)>>]

MonThuSun ==
    [days |-> <<<<"Mon", "Thu">>, <<"Sun">>>>, time |-> <<am(11, 30), pm(10, 0)>>]

\* "11:30 am - 10 pm": a time range and no day
NoDays == [days |-> <<>>, time |-> <<am(11, 30), pm(10, 0)>>]

\* "Closed": no day and no time range
Closed == [days |-> <<>>, time |-> <<>>]

Records ==
    {[name |-> "A", times |-> <<MonFri>>],
     [name |-> "B", times |-> <<FriNight>>],
     [times |-> <<MonFri>>],
     [name |-> "A"],
     [name |-> "A", times |-> <<MonFri, Closed>>]}

SeqsUpTo(S, n) == UNION {[1..k -> S] : k \in 0..n}

\* The sources of the sessions: up to MaxRestaurants records.
Sources ==
    {Unreadable} \cup {Readable(rs) : rs \in SeqsUpTo(Records, MaxRestaurants)}

\* The sources of the parser: one record with one hour string, or with an
\* hour string followed by "Closed".
ParseSources ==
    {Unreadable}
        \cup {Readable(<<[name |-> "A", times |-> <<s>>]>>) :
                s \in RangeStrings \cup LoneStrings}
        \cup {Readable(<<[name |-> "A", times |-> <<s, Closed>>]>>) :
                s \in LoneStrings}
        \cup {Readable(<<[name |-> "B",
                          times |-> <<NoDays, MonThuSun, SunNight, NoDays>>]>>)}

DateValues == 0..MaxDate \cup {InvalidDate}

InvalidTime == <<25, 0>>

ValidTimes == {<<1, 0>>, <<11, 30>>, <<15, 0>>, <<22, 0>>}

TimeValues == ValidTimes \cup {InvalidTime}

----------------------------------------------------------------------------
(* The session *)

Start ==
    /\ pc = "awaiting"
    /\ restaurants = <<>>
    /\ today = 0
    /\ dateInput = InvalidDate
    /\ timeInput = InvalidTime
    /\ dateError = FALSE
    /\ timeError = FALSE
    /\ list = <<>>
    /\ mainBody = "page"
    /\ listening = FALSE
    /\ query = <<>>
    /\ matches = <<>>

Init == source \in Sources /\ Start

\* Midnight passes.
Tick ==
    /\ today < MaxDay
    /\ today' = today + 1
    /\ UNCHANGED <<source, pc, restaurants, dateInput, timeInput, dateError,
                   timeError, list, mainBody, listening, query, matches>>

\* getRestaurants rejects and the catch runs handleError (lines 218-223, 296).
LoadFails ==
    /\ pc = "awaiting"
    /\ getRestaurantsThrows(source, Still(today, LoadReads(source)))
    /\ pc' = "failed"
    /\ mainBody' = "error"
    /\ UNCHANGED <<source, restaurants, today, dateInput, timeInput, dateError,
                   timeError, list, listening, query, matches>>

\* getRestaurants resolves; setupDefault fills the fields with the current
\* date and time and submits once; the listener is added (lines 292-295).
\* Every call of moment in the step reads the wall clock, and midnight may
\* pass between any two of them.
LoadSucceeds ==
    /\ pc = "awaiting"
    /\ ~getRestaurantsThrows(source, Still(today, LoadReads(source)))
    /\ \E clock \in Clocks(today, LoadReads(source)), nowTime \in ValidTimes :
          LET n == LoadReads(source)
          IN  /\ restaurants' = getRestaurants(source, clock)
              /\ dateInput' = clock[n - 1]
              /\ timeInput' = nowTime
              /\ handleSubmit(getRestaurants(source, clock), clock[n - 1],
                              nowTime, clock[n])
              /\ today' = clock[n]
    /\ listening' = TRUE
    /\ pc' = "ready"
    /\ UNCHANGED <<source, mainBody>>

\* The user fills in the fields and submits the form.
Submit ==
    /\ listening
    /\ \E dateValue \in DateValues, timeValue \in TimeValues :
          /\ dateInput' = dateValue
          /\ timeInput' = timeValue
          /\ handleSubmit(restaurants, dateValue, timeValue, today)
    /\ UNCHANGED <<source, pc, restaurants, today, mainBody, listening>>

Next == Tick \/ LoadFails \/ LoadSucceeds \/ Submit

Spec == Init /\ [][Next]_vars

\* Sessions in which the page is loaded and left alone, over the sources of
\* the parser.
ParseInit == source \in ParseSources /\ Start

ParseNext == Tick \/ LoadFails \/ LoadSucceeds

ParseSpec == ParseInit /\ [][ParseNext]_vars

----------------------------------------------------------------------------
(* Vocabulary of the properties, stated without the operators above *)

\* Minute of the day a 12-hour clock text names.
TextMinutes(text) ==
    IF text.ap = "am"
    THEN (IF text.h = 12 THEN 0 ELSE text.h) * 60 + text.m
    ELSE (IF text.h = 12 THEN 12 ELSE text.h + 12) * 60 + text.m

DateOf(instant) == instant \div MinutesPerDay

ClockOf(instant) == instant % MinutesPerDay

\* Position of a weekday in the week, Sun = 1 .. Sat = 7.
WeekPos(d) == CHOOSE i \in 1..7 : weekdaysShort[i] = d

NextWeekday(d) == weekdaysShort[(WeekPos(d) % 7) + 1]

\* The weekdays "a-b" stands for.
SpanOf(a, b) ==
    IF WeekPos(a) > WeekPos(b)
    THEN {w \in WeekdayNames : WeekPos(w) >= WeekPos(a) \/ WeekPos(w) <= WeekPos(b)}
    ELSE {w \in WeekdayNames : WeekPos(a) <= WeekPos(w) /\ WeekPos(w) <= WeekPos(b)}

\* The hour strings of the record restaurant i was built from.
TimesOf(i) == source.json[i].times

Shown(i) == \E j \in 1..Len(matches) : matches[j] = restaurants[i]

Answered == query # <<>>

----------------------------------------------------------------------------
(* Properties *)

\* The only hour string of restaurant i is a lone day with a close text
\* earlier than its open text.
LoneOvernight(i) ==
    /\ Len(TimesOf(i)) = 1
    /\ TimesOf(i)[1].days \in {<<<<d>>>> : d \in WeekdayNames}
    /\ TimesOf(i)[1].time # <<>>
    /\ TextMinutes(TimesOf(i)[1].time[2]) < TextMinutes(TimesOf(i)[1].time[1])

\* C1: a restaurant whose only hour string is a lone day D with a close time
\* textually earlier than its open time is in the result of a query whose
\* weekday is the day after D and whose time is before the close clock time.
C1_OvernightNextDay ==
    (pc = "ready" /\ Answered) =>
        \A i \in 1..Len(restaurants) :
            (/\ LoneOvernight(i)
             /\ query[1] = NextWeekday(TimesOf(i)[1].days[1][1])
             /\ ClockOf(query[2]) < TextMinutes(TimesOf(i)[1].time[2]))
                => Shown(i)

\* The indices of the restaurants open at the last query: the weekday has an
\* entry and the time is strictly between its open and close.
OpenAt ==
    {i \in 1..Len(restaurants) :
        /\ query[1] \in DOMAIN restaurants[i].schedule
        /\ restaurants[i].schedule[query[1]].open < query[2]
        /\ query[2] < restaurants[i].schedule[query[1]].close}

\* C2: the list handleSubmit passes to display is exactly the subsequence of
\* the restaurants, in input order, that have an entry for the query's weekday
\* with the time strictly between open and close; no entry, no match and an
\* empty input give a (possibly empty) list, not an error.
C2_FilterIsSubsequence ==
    Answered =>
        /\ mainBody = "page"
        /\ Len(matches) = Cardinality(OpenAt)
        /\ \E f \in [1..Len(matches) -> OpenAt] :
              /\ \A j, k \in 1..Len(matches) : j < k => f[j] < f[k]
              /\ \A j \in 1..Len(matches) : matches[j] = restaurants[f[j]]
        /\ list = IF matches = <<>> THEN <<NoResults>>
                  ELSE [j \in 1..Len(matches) |-> matches[j].name]

\* Of two restaurants the first has no entry for the query's weekday and only
\* the second is shown.
C2_Witness ==
    /\ Answered
    /\ Len(restaurants) = 2
    /\ Len(matches) = 1
    /\ matches[1] = restaurants[2]
    /\ query[1] \notin DOMAIN restaurants[1].schedule

\* C3: for a weekday present in the schedule, isOpen does not report open when
\* the instant equals the entry's open or close, and reports true for every
\* instant strictly after open and strictly before close.
C3_StrictBoundaries ==
    Answered =>
        \A i \in 1..Len(restaurants) :
            query[1] \in DOMAIN restaurants[i].schedule =>
                LET entry  == restaurants[i].schedule[query[1]]
                    result == isOpen(restaurants[i], query[1], query[2])
                IN  /\ query[2] = entry.open => result # True
                    /\ query[2] = entry.close => result # True
                    /\ (entry.open < query[2] /\ query[2] < entry.close)
                          => result = True
                    /\ Shown(i) <=> result = True

\* The query instant is the open instant of one restaurant's entry and the
\* close instant of another's.
C3_Witness ==
    /\ Answered
    /\ \E i \in 1..Len(restaurants) :
          /\ query[1] \in DOMAIN restaurants[i].schedule
          /\ query[2] = restaurants[i].schedule[query[1]].open
          /\ ~Shown(i)
    /\ \E i \in 1..Len(restaurants) :
          /\ query[1] \in DOMAIN restaurants[i].schedule
          /\ query[2] = restaurants[i].schedule[query[1]].close
          /\ ~Shown(i)

\* The entry's open and close carry the clock times of the texts <<o, c>>.
CarriesClocks(entry, timeRange) ==
    /\ ClockOf(entry.open) = TextMinutes(timeRange[1])
    /\ ClockOf(entry.close) = TextMinutes(timeRange[2])

\* The entry was written from the time range <<o, c>>: open and close carry
\* the clock times of the texts, close on open's date when c is later than o
\* and on the next date when c is the same as or earlier than o.
WrittenFrom(entry, timeRange) ==
    /\ CarriesClocks(entry, timeRange)
    /\ TextMinutes(timeRange[2]) > TextMinutes(timeRange[1])
          => DateOf(entry.close) = DateOf(entry.open)
    /\ TextMinutes(timeRange[2]) <= TextMinutes(timeRange[1])
          => DateOf(entry.close) = DateOf(entry.open) + 1

\* C4: every entry makeSchedule writes has close strictly after open: close
\* stays on open's date when the close text is later than the open text and
\* is exactly one day after open's date when it is the same or earlier.
C4_CloseAfterOpen ==
    pc = "ready" =>
        \A i \in 1..Len(restaurants) :
            \A d \in DOMAIN restaurants[i].schedule :
                /\ restaurants[i].schedule[d].close > restaurants[i].schedule[d].open
                /\ \E k \in 1..Len(TimesOf(i)) :
                      WrittenFrom(restaurants[i].schedule[d], TimesOf(i)[k].time)

\* The only hour string of restaurant i is "A-B <time range>".
OneRange(i) ==
    /\ Len(TimesOf(i)) = 1
    /\ TimesOf(i)[1].days \in {<<<<a, b>>>> : a, b \in WeekdayNames}
    /\ TimesOf(i)[1].time # <<>>

\* C5: for "A-B <time range>" with A after B in the week, makeSchedule writes
\* entries for exactly the weekdays from A to the end of the week and from the
\* start of the week to B, all with the same open/close pair; when A is not
\* after B, for exactly the weekdays from A to B.
C5_DayRange ==
    pc = "ready" =>
        \A i \in 1..Len(restaurants) :
            OneRange(i) =>
                LET a == TimesOf(i)[1].days[1][1]
                    b == TimesOf(i)[1].days[1][2]
                    schedule == restaurants[i].schedule
                IN  /\ DOMAIN schedule = SpanOf(a, b)
                    /\ \A d \in DOMAIN schedule :
                          /\ schedule[d] = schedule[a]
                          /\ CarriesClocks(schedule[d], TimesOf(i)[1].time)

\* "Fri-Mon" gave entries for Fri, Sat, Sun and Mon.
C5_Witness ==
    /\ pc = "ready"
    /\ Len(restaurants) = 1
    /\ OneRange(1)
    /\ TimesOf(1)[1].days = <<<<"Fri", "Mon">>>>
    /\ DOMAIN restaurants[1].schedule = {"Fri", "Sat", "Sun", "Mon"}

\* C6: a source in which a record is missing its name fails to load: no
\* restaurant list is returned, the failure notice is shown and no result
\* list is rendered.
C6_MissingNameFails ==
    (/\ source.readable
     /\ \E i \in 1..Len(source.json) : "name" \notin DOMAIN source.json[i]
     /\ pc # "awaiting")
        => /\ pc = "failed"
           /\ mainBody = "error"
           /\ restaurants = <<>>
           /\ list = <<>>

DateParses == dateInput \in 0..MaxDate

TimeParses ==
    \/ timeInput[1] \in 0..23 /\ timeInput[2] \in 0..59
    \/ timeInput = <<24, 0>>

\* C7: after every submit the date field is marked invalid exactly when the
\* date does not parse and the time field exactly when the time does not
\* parse; when either is invalid the restaurants are not filtered and the
\* displayed list is left unchanged.
C7_Validation ==
    [][pc' = "ready" =>
          /\ dateError' = ~DateParses'
          /\ timeError' = ~TimeParses'
          /\ (dateError' \/ timeError')
                => /\ list' = list
                   /\ matches' = matches
                   /\ query' = query
          /\ (query' # query \/ matches' # matches \/ list' # list)
                => DateParses' /\ TimeParses']_vars

\* Only the date is marked, the mark on the time field is gone, and the list
\* of an earlier query is still displayed.
C7_Witness ==
    /\ pc = "ready"
    /\ dateError
    /\ ~timeError
    /\ dateInput = InvalidDate
    /\ timeInput # InvalidTime
    /\ Answered
    /\ Len(matches) > 0
    /\ list # <<>>

\* getRestaurants rejects on this source: fetch or the JSON parse fails, a
\* record has no times, or an hour string has no time range.
LoadMustFail ==
    \/ ~source.readable
    \/ \E i \in 1..Len(source.json) :
          \/ "times" \notin DOMAIN source.json[i]
          \/ \E k \in 1..Len(source.json[i].times) :
                source.json[i].times[k].time = <<>>

\* C8: if the load fails the error message replaces the page body, no
\* restaurant list is ever displayed, the load is not retried and no submit
\* handler is registered, so no query is answered in any later state; a
\* query is answered only after the load has succeeded.
C8_FailedLoad ==
    /\ [](/\ pc = "failed" <=> (LoadMustFail /\ pc # "awaiting")
          /\ pc = "failed" =>
                /\ mainBody = "error"
                /\ restaurants = <<>>
                /\ list = <<>>
                /\ matches = <<>>
                /\ ~listening
                /\ ~Answered
          /\ Answered => pc = "ready" /\ mainBody = "page"
          /\ listening => pc = "ready")
    /\ [][pc = "failed" => pc' = "failed"]_vars

\* The load failed on the second of two records, the first being well formed,
\* and the session outlived the failure by a day.
C8_Witness ==
    /\ pc = "failed"
    /\ source.readable
    /\ Len(source.json) = 2
    /\ "times" \in DOMAIN source.json[1]
    /\ \A k \in 1..Len(source.json[1].times) : source.json[1].times[k].time # <<>>
    /\ today > 0
    /\ mainBody = "error"

\* The hour string matches the day-range or the lone-day pattern.
HasDayPattern(time) ==
    \/ \E c \in 1..Len(time.days) : Len(time.days[c]) = 2
    \/ /\ Len(time.days) > 0
       /\ Len(time.days[Len(time.days)]) = 1
       /\ time.time # <<>>

\* C9: an hour string that matches neither the day-range nor the lone-day
\* pattern is dropped without an error, so a readable source in which every
\* record has its times, and every hour string that does match a day pattern
\* has a time range, never fails to load.
C9_UnmatchedNeverThrows ==
    (/\ source.readable
     /\ \A i \in 1..Len(source.json) :
           /\ "times" \in DOMAIN source.json[i]
           /\ \A k \in 1..Len(source.json[i].times) :
                 HasDayPattern(source.json[i].times[k])
                    => source.json[i].times[k].time # <<>>)
        => pc # "failed"

\* C10: two queries with the same weekday and clock time give the same
\* result list, whatever the wall-clock date of each.
C10_SameQuerySameResult ==
    [][(/\ Answered
        /\ Answered'
        /\ query'[1] = query[1]
        /\ ClockOf(query'[2]) = ClockOf(query[2]))
          => matches' = matches]_vars

====
